---- MODULE Spec2Model ----
(***************************************************************************)
(* Model of collect_scores.py: the Terminal-Bench leaderboard pipeline.    *)
(*   fetch_leaderboard -> filter_entries -> unique_models ->               *)
(*   search_hf_hub (once per pair) -> build_output -> write                *)
(*                                                                         *)
(* Text that the code parses (the rank cell, the accuracy cell, hub repo   *)
(* ids, canonical owners) is a sequence of one-character strings, so that  *)
(* int(), float(), re.match, str.split and str.lower are computed on the   *)
(* characters.  Text that the code only compares (agent, model, date,      *)
(* orgs) is a plain string.  Python's None is the empty sequence and a     *)
(* present value v is <<v>>.  A float is the exact decimal [num, den].     *)
(***************************************************************************)
EXTENDS Integers, Sequences, FiniteSets, TLC

VARIABLES
    site,          \* the document the leaderboard URL serves
    pc,            \* where main is
    fatal,         \* what ended the run early: "none" while nothing has
    rows,          \* fetch_leaderboard: the rows of the table
    i,             \* fetch_leaderboard: the number of the next row
    all_results,   \* fetch_leaderboard: results
    entries,       \* main: the filtered entries
    models,        \* main: the deduplicated (model, model_org) pairs
    k,             \* main: the number of the next pair to search
    match_results, \* main: model name -> MatchResult
    searchLog,     \* the searches issued so far, with what each returned
    hub,           \* the hub's answer to the search under way, else None
    scan,          \* the latest search: candidates taken, matches kept
    output,        \* the content of matched-repos.json, None before a write
    writes         \* how many times the output file was written

vars == <<site, pc, fatal, rows, i, all_results, entries, models, k,
          match_results, searchLog, hub, scan, output, writes>>

None == <<>>
Some(v) == <<v>>

\* ------------------------------------------------------------------------
\* Module constants
\* ------------------------------------------------------------------------

SOURCE_URL == "https://www.tbench.ai/leaderboard/terminal-bench/2.0"

CLOSED_MODEL_ORGS == {"OpenAI", "Google", "xAI", "Anthropic"}

AGENT_NAME == "Terminus 2"

moonshotai == <<"m","o","o","n","s","h","o","t","a","i">>
zai_org == <<"z","a","i","-","o","r","g">>
minimaxai == <<"m","i","n","i","m","a","x","a","i">>
Qwen == <<"Q","w","e","n">>

MODEL_ORG_LOOKUP ==
    [o \in {"Kimi", "Moonshot AI", "Z-AI", "Z.ai", "MiniMax", "Alibaba"} |->
        CASE o = "Kimi" -> moonshotai
          [] o = "Moonshot AI" -> moonshotai
          [] o = "Z-AI" -> zai_org
          [] o = "Z.ai" -> zai_org
          [] o = "MiniMax" -> minimaxai
          [] o = "Alibaba" -> Qwen]

\* ------------------------------------------------------------------------
\* Characters
\* ------------------------------------------------------------------------

Digits == <<"0","1","2","3","4","5","6","7","8","9">>

IsDigit(c) == \E d \in 1..10 : Digits[d] = c

DigitVal(c) == (CHOOSE d \in 1..10 : Digits[d] = c) - 1

UpperChars == <<"A","B","C","D","E","F","G","H","I","J","K","L","M",
                "N","O","P","Q","R","S","T","U","V","W","X","Y","Z">>

LowerChars == <<"a","b","c","d","e","f","g","h","i","j","k","l","m",
                "n","o","p","q","r","s","t","u","v","w","x","y","z">>

UpperSet == {UpperChars[n] : n \in 1..26}

LowerOf == [c \in UpperSet |-> LowerChars[CHOOSE n \in 1..26 : UpperChars[n] = c]]

\* str.lower on one character
LowerChar(c) == IF c \in UpperSet THEN LowerOf[c] ELSE c

\* str.lower
lower(s) == [n \in 1..Len(s) |-> LowerChar(s[n])]

\* \s of the re module, on the characters the model uses
Whitespace == {" ", "\t", "\n"}

\* a number class that lets a sign through
NumClassSigned == {"0","1","2","3","4","5","6","7","8","9",".","-"}

\* [\d.] of the accuracy pattern
NumClass == {"0","1","2","3","4","5","6","7","8","9","."}

\* the length of the longest run of characters of Cls in s from position p
RECURSIVE RunLen(_, _, _)
RunLen(s, p, Cls) ==
    IF p > Len(s) \/ s[p] \notin Cls THEN 0 ELSE 1 + RunLen(s, p + 1, Cls)

\* the number a sequence of digit characters denotes
RECURSIVE DigitsVal(_)
DigitsVal(ds) ==
    IF ds = <<>> THEN 0
    ELSE 10 * DigitsVal(SubSeq(ds, 1, Len(ds) - 1)) + DigitVal(ds[Len(ds)])

RECURSIVE Pow10(_)
Pow10(n) == IF n = 0 THEN 1 ELSE 10 * Pow10(n - 1)

\* s without its leading "+" or "-"
Unsigned(s) ==
    IF s # <<>> /\ s[1] \in {"+", "-"} THEN SubSeq(s, 2, Len(s)) ELSE s

Sign(s) == IF s # <<>> /\ s[1] = "-" THEN -1 ELSE 1

\* int(rank_str): an optional sign, then digits, single underscores allowed
\* between digits; None stands for ValueError
python_int(s) ==
    LET u == Unsigned(s)
        ok == /\ u # <<>>
              /\ \A n \in 1..Len(u) : IsDigit(u[n]) \/ u[n] = "_"
              /\ IsDigit(u[1]) /\ IsDigit(u[Len(u)])
              /\ \A n \in 1..(Len(u) - 1) : ~(u[n] = "_" /\ u[n + 1] = "_")
    IN IF ok THEN Some(Sign(s) * DigitsVal(SelectSeq(u, IsDigit))) ELSE None

\* float(text) on signs, digits and dots: an optional sign, at least one
\* digit, at most one dot; None stands for ValueError
python_float(s) ==
    LET u == Unsigned(s)
        dots == {n \in 1..Len(u) : u[n] = "."}
        ok == /\ \A n \in 1..Len(u) : IsDigit(u[n]) \/ u[n] = "."
              /\ Cardinality(dots) <= 1
              /\ \E n \in 1..Len(u) : IsDigit(u[n])
        decimals == IF dots = {} THEN 0 ELSE Len(u) - (CHOOSE n \in dots : TRUE)
    IN IF ok
       THEN Some([num |-> Sign(s) * DigitsVal(SelectSeq(u, IsDigit)),
                  den |-> Pow10(decimals)])
       ELSE None

\* re.match(r"([\d.]+)%±\s*([\d.]+|N/A)", accuracy_str): the two groups,
\* or None.  The character "±" is written "+-".
acc_match(s) ==
    LET n1 == RunLen(s, 1, NumClass)
        p == n1 + 1
        ws == RunLen(s, p + 2, Whitespace)
        q == p + 2 + ws
        n2 == RunLen(s, q, NumClass)
    IN IF n1 = 0 \/ Len(s) < p + 1 \/ s[p] # "%" \/ s[p + 1] # "+-" THEN None
       ELSE IF n2 > 0
            THEN Some([g1 |-> SubSeq(s, 1, n1), g2 |-> SubSeq(s, q, q + n2 - 1)])
       ELSE IF Len(s) >= q + 2 /\ SubSeq(s, q, q + 2) = <<"N", "/", "A">>
            THEN Some([g1 |-> SubSeq(s, 1, n1), g2 |-> <<"N", "/", "A">>])
       ELSE None

\* ------------------------------------------------------------------------
\* Step 1: fetch_leaderboard
\* ------------------------------------------------------------------------

Rank == <<"R","a","n","k">>

\* cells[1:2], the slice holding the second cell when there is one
Slice12(cells) == IF Len(cells) >= 2 THEN <<cells[2]>> ELSE <<>>

\* the entry of an accepted row
Entry(rank, agent, model, date, agent_org, model_org, accuracy, error_margin) ==
    [rank |-> rank, agent |-> agent, model |-> model, date |-> date,
     agent_org |-> agent_org, model_org |-> model_org,
     accuracy |-> accuracy, error_margin |-> error_margin]

\* a margin that turns "N/A" into the placeholder 0.0
MarginPlaceholder(g2) ==
    IF g2 # <<"N", "/", "A">>
    THEN (IF python_float(g2) = None THEN None ELSE Some(python_float(g2)))
    ELSE Some(Some([num |-> 0, den |-> 1]))

\* float(acc_match.group(2)) if acc_match.group(2) != "N/A" else None;
\* the value is wrapped once more so that None can stand for ValueError
MarginOf(g2) ==
    IF g2 # <<"N", "/", "A">>
    THEN (IF python_float(g2) = None THEN None ELSE Some(python_float(g2)))
    ELSE Some(None)

\* One iteration of the row loop: "skip" (continue), "entry" (append) or
\* "raise" (a ValueError that nothing catches)
ParseRow(cells) ==
    IF cells = <<>> \/ Slice12(cells) = <<Rank>> \/ Slice12(cells) = <<>>
    THEN [kind |-> "skip"]
    ELSE IF Len(cells) # 8 THEN [kind |-> "skip"]
    ELSE LET m == acc_match(cells[8]) IN
         IF m = None THEN [kind |-> "skip"]
         ELSE LET accuracy == python_float(m[1].g1)
                  error_margin == MarginOf(m[1].g2)
                  rank == python_int(cells[2])
              IN IF accuracy = None \/ error_margin = None \/ rank = None
                 THEN [kind |-> "raise"]
                 ELSE [kind |-> "entry",
                       entry |-> Entry(rank[1], cells[3], cells[4], cells[5],
                                       cells[6], cells[7], accuracy[1],
                                       error_margin[1])]

\* a fetch whose failures are swallowed: the run goes on with no rows
FetchTargetContinue(outcome, doc) ==
    IF outcome # "ok" \/ ~doc.table \/ doc.rows = <<>> THEN "filter" ELSE "parse"

\* where main goes after httpx.get, raise_for_status and the table search
FetchTarget(outcome, doc) ==
    IF outcome # "ok" \/ ~doc.table THEN "aborted"
    ELSE IF doc.rows = <<>> THEN "filter" ELSE "parse"

\* what ended the run before the write, if anything
FetchFatal(outcome, doc) ==
    IF outcome # "ok" THEN outcome
    ELSE IF ~doc.table THEN "no_table" ELSE "none"

\* httpx.get, raise_for_status, the <table> search and the <tr> split
FetchLeaderboard ==
    /\ pc = "fetch"
    /\ \E outcome \in {"ok", "transport_error", "bad_status"} :
          /\ pc' = FetchTarget(outcome, site)
          /\ fatal' = FetchFatal(outcome, site)
          /\ rows' = IF outcome = "ok" /\ site.table THEN site.rows ELSE <<>>
    /\ i' = 1
    /\ UNCHANGED <<site, all_results, entries, models, k, match_results,
                   searchLog, hub, scan, output, writes>>

\* the body of "for row in rows", for row number i; after the last row the
\* function returns results to main
ParseRowStep ==
    /\ pc = "parse"
    /\ i <= Len(rows)
    /\ LET r == ParseRow(rows[i]) IN
         /\ all_results' = IF r.kind = "entry"
                            THEN Append(all_results, r.entry) ELSE all_results
         /\ pc' = IF r.kind = "raise" THEN "aborted"
                   ELSE IF i = Len(rows) THEN "filter" ELSE "parse"
         /\ fatal' = IF r.kind = "raise" THEN "value_error" ELSE fatal
    /\ i' = i + 1
    /\ UNCHANGED <<site, rows, entries, models, k, match_results, searchLog,
                   hub, scan, output, writes>>

\* ------------------------------------------------------------------------
\* Step 2: filter_entries
\* ------------------------------------------------------------------------

\* a condition that forgets the alias table
KeptNoAlias(r) ==
    /\ r.agent = AGENT_NAME
    /\ r.model_org \notin CLOSED_MODEL_ORGS

\* the condition of the list comprehension
Kept(r) ==
    /\ r.agent = AGENT_NAME
    /\ r.model_org \notin CLOSED_MODEL_ORGS
    /\ r.model_org \in DOMAIN MODEL_ORG_LOOKUP

\* [r for r in results if ...], built front to back
RECURSIVE filter_entries(_)
filter_entries(results) ==
    IF results = <<>> THEN <<>>
    ELSE (IF Kept(Head(results)) THEN <<Head(results)>> ELSE <<>>)
         \o filter_entries(Tail(results))

FilterEntries ==
    /\ pc = "filter"
    /\ entries' = filter_entries(all_results)
    /\ pc' = "unique"
    /\ UNCHANGED <<site, fatal, rows, i, all_results, models, k, match_results,
                   searchLog, hub, scan, output, writes>>

\* ------------------------------------------------------------------------
\* Step 3: unique_models and search_hf_hub
\* ------------------------------------------------------------------------

\* the loop of unique_models from entry n on, with the pairs seen so far
RECURSIVE UniqueFrom(_, _, _)
UniqueFrom(es, n, acc) ==
    IF n > Len(es) THEN acc
    ELSE LET key == <<es[n].model, es[n].model_org>> IN
         UniqueFrom(es, n + 1,
                    IF \E j \in 1..Len(acc) : acc[j] = key
                    THEN acc ELSE Append(acc, key))

\* one pair per entry, duplicates kept
UniqueNoDedup(es) == [n \in 1..Len(es) |-> <<es[n].model, es[n].model_org>>]

unique_models(es) == UniqueFrom(es, 1, <<>>)

UniqueModels ==
    /\ pc = "unique"
    /\ models' = unique_models(entries)
    /\ k' = 1
    /\ pc' = IF models' = <<>> THEN "build" ELSE "search"
    /\ UNCHANGED <<site, fatal, rows, i, all_results, entries, match_results,
                   searchLog, hub, scan, output, writes>>

\* m.id.split("/")[0]
RECURSIVE SplitHead(_, _)
SplitHead(id, p) ==
    IF p > Len(id) \/ id[p] = "/" THEN SubSeq(id, 1, p - 1)
    ELSE SplitHead(id, p + 1)

HFMatch(id) ==
    [repo_id |-> id, repo_type |-> "model",
     url |-> <<"https://huggingface.co/">> \o id]

\* a loop without the break: every candidate of the owner is appended
RECURSIVE ScanNoBreak(_, _, _)
ScanNoBreak(resp, hf_org_lower, n) ==
    IF n > Len(resp.items)
    THEN [matches |-> <<>>, raised |-> resp.fail, pulled |-> n - 1]
    ELSE LET rest == ScanNoBreak(resp, hf_org_lower, n + 1) IN
         IF lower(SplitHead(resp.items[n], 1)) = hf_org_lower
         THEN [rest EXCEPT !.matches = <<HFMatch(resp.items[n])>> \o @]
         ELSE rest

\* The for loop over api.list_models(...) from candidate n on.  resp.items
\* are the candidates the hub yields, in ranked order; resp.fail says that
\* the iterator raises when asked for the one after the last.  pulled is how
\* many candidates the loop took from the iterator.
RECURSIVE ScanFrom(_, _, _)
ScanFrom(resp, hf_org_lower, n) ==
    IF n > Len(resp.items)
    THEN [matches |-> <<>>, raised |-> resp.fail, pulled |-> n - 1]
    ELSE IF lower(SplitHead(resp.items[n], 1)) = hf_org_lower
         THEN [matches |-> <<HFMatch(resp.items[n])>>, raised |-> FALSE,
               pulled |-> n]
         ELSE ScanFrom(resp, hf_org_lower, n + 1)

\* a handler that lets the exception through
EscapesAll(raised) == raised

\* what "except Exception" lets out of search_hf_hub: nothing
Escapes(raised) == FALSE

\* search_hf_hub(api, model_name, model_org) when the hub answers resp.
\* called: api.list_models was called; result: the returned MatchResult or
\* None; escaped: an exception left the function.
search_hf_hub(model_name, model_org, resp) ==
    IF model_org \notin DOMAIN MODEL_ORG_LOOKUP
    THEN [called |-> FALSE, result |-> None, raised |-> FALSE, pulled |-> 0,
          escaped |-> FALSE, nmatches |-> 0]
    ELSE LET s == ScanFrom(resp, lower(MODEL_ORG_LOOKUP[model_org]), 1) IN
         [called |-> TRUE,
          result |-> IF s.matches # <<>>
                     THEN Some([model_name |-> model_name,
                                model_org |-> model_org,
                                matches |-> s.matches])
                     ELSE None,
          raised |-> s.raised, pulled |-> s.pulled,
          escaped |-> Escapes(s.raised), nmatches |-> Len(s.matches)]

\* match_results[model_name] = result
DictSet(d, key, v) ==
    [x \in (DOMAIN d) \cup {key} |-> IF x = key THEN v ELSE d[x]]

\* ------------------------------------------------------------------------
\* Step 4: build_output
\* ------------------------------------------------------------------------

\* {**entry, "hf_repo_id": repo.repo_id, "hf_url": repo.url}
Enriched(e, repo) ==
    [f \in (DOMAIN e) \cup {"hf_repo_id", "hf_url"} |->
        IF f = "hf_repo_id" THEN repo.repo_id
        ELSE IF f = "hf_url" THEN repo.url ELSE e[f]]

\* the loop of build_output from entry n on
RECURSIVE EnrichFrom(_, _, _)
EnrichFrom(es, mrs, n) ==
    IF n > Len(es) THEN <<>>
    ELSE IF es[n].model \notin DOMAIN mrs THEN EnrichFrom(es, mrs, n + 1)
    ELSE <<Enriched(es[n], mrs[es[n].model].matches[1])>>
         \o EnrichFrom(es, mrs, n + 1)

build_output(es, mrs) ==
    [source |-> SOURCE_URL, entries |-> EnrichFrom(es, mrs, 1)]

\* ------------------------------------------------------------------------
\* main
\* ------------------------------------------------------------------------

\* the length of the longest candidate list the hub is taken to return
MaxCands == 2

\* the length of the longest table of the pipeline's documents
MaxRows == 2

SeqsUpTo(S, n) == UNION {[1..m -> S] : m \in 0..n}

\* repo ids the hub may return
CandIds ==
    { <<"M","o","o","n","s","h","o","t","A","I","/","K","2">>,
      <<"m","o","o","n","s","h","o","t","a","i","/","k","1">>,
      <<"Q","w","e","n","/","Q","3">>,
      <<"b","a","d","/","o","r","g">> }

Responses ==
    {[items |-> its, fail |-> f] : its \in SeqsUpTo(CandIds, MaxCands),
                                   f \in BOOLEAN}

\* "for model_name, model_org in models": the next pair's search is
\* started, and the hub settles what it answers
SearchCall ==
    /\ pc = "search"
    /\ k <= Len(models)
    /\ \E resp \in Responses : hub' = Some(resp)
    /\ scan' = [pulled |-> 0, nmatches |-> 0]
    /\ pc' = "scan"
    /\ UNCHANGED <<site, fatal, rows, i, all_results, entries, models, k,
                   match_results, searchLog, output, writes>>

\* where main goes after search number n
AfterSearch(ret, n) ==
    IF ret.escaped THEN "aborted"
    ELSE IF n = Len(models) THEN "build" ELSE "search"

\* search_hf_hub runs on the hub's answer and returns to main, which
\* stores a result that is not None under the model's name
SearchScan ==
    /\ pc = "scan"
    /\ LET model_name == models[k][1]
           model_org == models[k][2]
           ret == search_hf_hub(model_name, model_org, hub[1])
       IN /\ searchLog' = Append(searchLog,
                                 [model |-> model_name, org |-> model_org,
                                  called |-> ret.called,
                                  raised |-> ret.raised,
                                  result |-> ret.result])
          /\ match_results' = IF ~ret.escaped /\ ret.result # None
                              THEN DictSet(match_results, model_name,
                                           ret.result[1])
                              ELSE match_results
          /\ scan' = [pulled |-> ret.pulled, nmatches |-> ret.nmatches]
          /\ pc' = AfterSearch(ret, k)
          /\ fatal' = IF ret.escaped THEN "search_error" ELSE fatal
    /\ k' = k + 1
    /\ hub' = None
    /\ UNCHANGED <<site, rows, i, all_results, entries, models, output, writes>>

\* build_output, then json.dump to OUTPUT_PATH
BuildAndWrite ==
    /\ pc = "build"
    /\ output' = Some(build_output(entries, match_results))
    /\ writes' = writes + 1
    /\ pc' = "done"
    /\ UNCHANGED <<site, fatal, rows, i, all_results, entries, models, k,
                   match_results, searchLog, hub, scan>>

Next ==
    \/ FetchLeaderboard
    \/ ParseRowStep
    \/ FilterEntries
    \/ UniqueModels
    \/ SearchCall
    \/ SearchScan
    \/ BuildAndWrite

\* ------------------------------------------------------------------------
\* Documents
\* ------------------------------------------------------------------------

RECURSIVE FmtNat(_)
FmtNat(n) ==
    IF n < 10 THEN <<Digits[n + 1]>>
    ELSE FmtNat(n \div 10) \o <<Digits[(n % 10) + 1]>>

FmtInt(n) == IF n < 0 THEN <<"-">> \o FmtNat(-n) ELSE FmtNat(n)

\* t tenths as text with one decimal: 751 is "75.1"
FmtTenths(t) == FmtNat(t \div 10) \o <<".">> \o FmtNat(t % 10)

\* the accuracy cell "<a>%± <m>", or "<a>%± N/A" when m is None
AccText(a, m) ==
    FmtTenths(a) \o <<"%", "+-", " ">>
    \o (IF m = None THEN <<"N", "/", "A">> ELSE FmtTenths(m[1]))

Row(rank, agent, model, org, acc) ==
    <<"", rank, agent, model, "2025-11-01", "Stanford", org, acc>>

PlainRow(agent, model, org) ==
    Row(FmtInt(1), agent, model, org, AccText(751, Some(24)))

PipelineRows ==
    { PlainRow("Terminus 2", "m1", "Kimi"),
      PlainRow("Terminus 2", "m1", "Alibaba"),
      PlainRow("Terminus 2", "m2", "Kimi"),
      PlainRow("OpenHands", "m1", "Kimi"),
      PlainRow("Terminus 2", "m1", "OpenAI"),
      PlainRow("Terminus 2", "m1", "DeepSeek"),
      PlainRow("OpenHands", "m1", "OpenAI"),
      PlainRow("OpenHands", "m1", "DeepSeek") }

Sites(pages) ==
    {[table |-> FALSE, rows |-> <<>>]}
    \cup {[table |-> TRUE, rows |-> p] : p \in pages}

InitWith(pages) ==
    /\ site \in Sites(pages)
    /\ pc = "fetch"
    /\ fatal = "none"
    /\ rows = <<>>
    /\ i = 1
    /\ all_results = <<>>
    /\ entries = <<>>
    /\ models = <<>>
    /\ k = 1
    /\ match_results = <<>>
    /\ searchLog = <<>>
    /\ hub = None
    /\ scan = [pulled |-> 0, nmatches |-> 0]
    /\ output = None
    /\ writes = 0

Init == InitWith(SeqsUpTo(PipelineRows, MaxRows))

Spec == Init /\ [][Next]_vars

\* Documents whose rows vary in the rank cell, the accuracy cell and the
\* number of cells.  Numbers are in tenths: 751 is 75.1.
RankSamples == {-3, 0, 1, 12}

AccSamples == {0, 751, 1000, 1001}

MarginSamples == {None, Some(0), Some(24)}

RankTexts ==
    {FmtInt(n) : n \in RankSamples}
    \cup { <<"x">>, <<"1","s","t">>, <<"+","5">>, <<"1","_","0">>, <<>>, Rank }

AccTexts ==
    {AccText(a, m) : a \in AccSamples, m \in MarginSamples}
    \cup { <<"7","5",".","1">>,
           <<"1",".","2",".","3","%","+-"," ","2">>,
           <<"7","5",".","1","%","+-"," ","1",".","2",".","3">>,
           <<"-","5",".","0","%","+-"," ","1",".","0">>,
           <<"7","5",".","1","%","+-","N","/","A">>,
           <<"7","5",".","1","%"," ","+-"," ","2",".","4">>,
           <<".","%","+-"," ","1",".","0">>,
           <<"7","5",".","1","%","+-"," ">> }

VariedRows ==
    {Row(r, "OpenHands", "m1", "Kimi", a) : r \in RankTexts, a \in AccTexts}
    \cup { <<>>, <<"">>, <<"", FmtInt(1)>>,
           SubSeq(PlainRow("OpenHands", "m1", "Kimi"), 1, 7),
           PlainRow("OpenHands", "m1", "Kimi") \o <<"">> }

GoodRow == PlainRow("OpenHands", "m2", "Kimi")

RowPages ==
    {<<r>> : r \in VariedRows \cup PipelineRows}
    \cup {<<GoodRow, r>> : r \in VariedRows}
    \cup {<<r, GoodRow>> : r \in VariedRows}

InitRows == InitWith(RowPages)

SpecRows == InitRows /\ [][Next]_vars

\* ------------------------------------------------------------------------
\* Properties
\* ------------------------------------------------------------------------

Report == output[1].entries

PairOf(e) == <<e.model, e.model_org>>

Min(S) == CHOOSE x \in S : \A y \in S : x <= y

\* the text of id before its first "/", the whole of it when it has none
OwnerOf(id) ==
    LET cut == {n \in 1..Len(id) : id[n] = "/"}
    IN IF cut = {} THEN id ELSE SubSeq(id, 1, Min(cut) - 1)

\* a and b are the same letter in either case, or the same character
SameChar(a, b) ==
    \/ a = b
    \/ \E n \in 1..26 : {a, b} = {UpperChars[n], LowerChars[n]}

SameIgnoringCase(a, b) ==
    /\ Len(a) = Len(b)
    /\ \A n \in 1..Len(a) : SameChar(a[n], b[n])

\* C1: every entry of the written report carries a repository match (its
\* hf_repo_id and hf_url are not null), and no filtered entry whose
\* (model, model_org) search returned no match is in the report.
C1_ReportHasOnlyMatchedEntries ==
    output # None =>
        /\ \A n \in 1..Len(Report) :
              Report[n].hf_repo_id # None /\ Report[n].hf_url # None
        /\ \A j \in 1..Len(searchLog) :
              searchLog[j].result = None =>
                  \A n \in 1..Len(Report) :
                      PairOf(Report[n]) # <<searchLog[j].model, searchLog[j].org>>

\* C2: inside a found table no row is fatal: the run is aborted only by a
\* failed fetch or a missing table, never by a row.
C2_RowRejectionIsNeverFatal ==
    pc = "aborted" => fatal \in {"transport_error", "bad_status", "no_table"}

C3Keep(r) ==
    /\ r.agent = "Terminus 2"
    /\ r.model_org \notin CLOSED_MODEL_ORGS
    /\ r.model_org \in DOMAIN MODEL_ORG_LOOKUP

\* C3: once filter_entries has run, the filtered entries are exactly the
\* parsed entries that satisfy all three predicates, in their input order.
C3_FilterKeepsIffAllThree ==
    pc \in {"unique", "search", "scan", "build", "done"} =>
        entries = SelectSeq(all_results, C3Keep)

C3_Witness ==
    /\ pc = "done"
    /\ Len(all_results) = 2
    /\ Len(entries) = 1
    /\ all_results[1].model_org = "DeepSeek"

\* C4: a search keeps at most one candidate; when some candidate's owner is
\* the canonical owner of model_org, case ignored, it keeps the first such
\* candidate and takes no candidate after it from the hub; when none is,
\* the result is no match.
C4_FirstOwnerMatchOnly ==
    [][pc = "scan" =>
        LET items == hub[1].items
            owner == MODEL_ORG_LOOKUP[models[k][2]]
            hits == {n \in 1..Len(items) :
                        SameIgnoringCase(OwnerOf(items[n]), owner)}
            rec == searchLog'[Len(searchLog')]
        IN /\ scan'.nmatches <= 1
           /\ hits = {} => rec.result = None /\ scan'.nmatches = 0
           /\ hits # {} =>
                 /\ rec.result # None
                 /\ Len(rec.result[1].matches) = 1
                 /\ rec.result[1].matches[1].repo_id = items[Min(hits)]
                 /\ scan'.pulled = Min(hits)]_vars

C4_Witness ==
    /\ searchLog # <<>>
    /\ scan.pulled = 2
    /\ scan.nmatches = 1
    /\ searchLog[Len(searchLog)].result # None
    /\ searchLog[Len(searchLog)].result[1].matches[1].repo_id
         = <<"M","o","o","n","s","h","o","t","A","I","/","K","2">>

\* C5: a search that raises returns no match, the exception never ends the
\* run, every pair is still searched and the report is still written.
C5_SearchFailureIsNoMatch ==
    /\ \A n \in 1..Len(searchLog) :
          searchLog[n].raised => searchLog[n].result = None
    /\ fatal # "search_error"
    /\ searchLog # <<>> => pc \in {"search", "scan", "build", "done"}
    /\ pc = "done" => writes = 1 /\ Len(searchLog) = Len(models)

C5_Witness ==
    /\ pc = "done"
    /\ writes = 1
    /\ Len(searchLog) = 2
    /\ searchLog[1].raised
    /\ searchLog[2].result # None

\* C6: after a failed fetch or a document without a table the run is
\* aborted, the output file is never written and no search is issued.
C6_FatalFetchWritesNothing ==
    fatal \in {"transport_error", "bad_status", "no_table"} =>
        /\ pc = "aborted"
        /\ writes = 0
        /\ output = None
        /\ searchLog = <<>>
        /\ hub = None

C6_Witness ==
    /\ pc = "aborted"
    /\ fatal = "bad_status"
    /\ site.table
    /\ Len(site.rows) = 2

AccRow(a, m) == Len(rows[i]) = 8 /\ rows[i][8] = AccText(a, m)

\* the step appends one entry with accuracy a tenths and margin m
AppendsAcc(a, m) ==
    /\ Len(all_results') = Len(all_results) + 1
    /\ SubSeq(all_results', 1, Len(all_results)) = all_results
    /\ LET e == all_results'[Len(all_results')] IN
         /\ e.accuracy.num * 10 = a * e.accuracy.den
         /\ (m = None) <=> (e.error_margin = None)
         /\ m # None =>
               e.error_margin[1].num * 10 = m[1] * e.error_margin[1].den

\* C8 as stated: every row with 8 cells whose accuracy cell is
\* "<num>%±<margin>" becomes an entry with that accuracy, and with that
\* margin, absent exactly when the margin is "N/A".
C8_EveryAccuracyRowBecomesEntry ==
    [][pc = "parse" =>
        \A a \in AccSamples, m \in MarginSamples :
            AccRow(a, m) => AppendsAcc(a, m)]_vars

\* C8 amended: every row with 8 cells whose rank cell parses as an integer
\* and whose accuracy cell is "<num>%±<margin>" becomes an entry with that
\* rank and accuracy, and with that margin, absent exactly when the margin
\* is "N/A".
C8_RankedAccuracyRowBecomesEntry ==
    [][pc = "parse" =>
        \A a \in AccSamples, m \in MarginSamples, r \in RankSamples :
            AccRow(a, m) /\ rows[i][2] = FmtInt(r) =>
                /\ AppendsAcc(a, m)
                /\ all_results'[Len(all_results')].rank = r]_vars

C8_Witness ==
    /\ Len(all_results) = 2
    /\ all_results[1].error_margin = None
    /\ all_results[1].accuracy = [num |-> 1001, den |-> 10]
    /\ all_results[2].error_margin = Some([num |-> 24, den |-> 10])

\* C9 as stated: every parsed entry has rank >= 1 and accuracy in [0, 100].
C9_EntriesAreInRange ==
    \A n \in 1..Len(all_results) :
        /\ all_results[n].rank >= 1
        /\ all_results[n].accuracy.num >= 0
        /\ all_results[n].accuracy.num <= 100 * all_results[n].accuracy.den

\* C9 amended: every parsed entry has an integer rank and an accuracy that
\* is not negative; nothing bounds the rank below or the accuracy above.
C9_EntriesAreIntegerAndNonNegative ==
    \A n \in 1..Len(all_results) :
        /\ all_results[n].rank \in Int
        /\ all_results[n].accuracy.den > 0
        /\ all_results[n].accuracy.num >= 0

C9_Witness ==
    \E n \in 1..Len(all_results) :
        /\ all_results[n].rank < 1
        /\ all_results[n].accuracy.num > 100 * all_results[n].accuracy.den

\* C10: the owner of every report entry's hf_repo_id is, case ignored, the
\* canonical owner the alias table gives that entry's own model_org.
C10_RepoOwnerIsOrgOwner ==
    output # None =>
        \A n \in 1..Len(Report) :
            SameIgnoringCase(OwnerOf(Report[n].hf_repo_id),
                             MODEL_ORG_LOOKUP[Report[n].model_org])

====
